---- MODULE Spec2Model ----
(***************************************************************************)
(* Model of rclone's archive backends (backend/archive/zip and             *)
(* backend/archive/squashfs): the namespace built from an archive's entry  *)
(* list (readZip / readSquashfs on a dirtree.DirTree), the query surface   *)
(* (List, NewObject), the entry reader (Object.Open) and the zip writer    *)
(* (Fs.Put with its atexit finalizer).                                     *)
(*                                                                         *)
(* Strings are sequences of one-character strings, so that the byte-level  *)
(* operations of the code (strings.HasPrefix, strings.TrimPrefix,          *)
(* path.Clean, ...) are computed as the code computes them.                *)
(***************************************************************************)
EXTENDS Integers, Sequences, FiniteSets, TLC

(***************************************************************************)
(* Bounds of the model.                                                    *)
(***************************************************************************)
\* the longest entry list of an archive
MaxEntries == 3

\* the largest size of an entry that is opened for reading
MaxSize == 20

\* the number of goroutines that call Put
NumCallers == 2

\* the number of Put calls made on one Fs
MaxPuts == 2

\* the most bytes one Write of io.CopyN hands to the encoder
Chunk == 5

(***************************************************************************)
(* Go's strings and path packages, on sequences of characters.             *)
(***************************************************************************)
\* the byte value of a character (the order strings compare in)
Code(c) ==
    CASE c = "." -> 46
      [] c = "/" -> 47
      [] c = "a" -> 97
      [] c = "b" -> 98
      [] c = "c" -> 99
      [] c = "d" -> 100
      [] c = "p" -> 112
      [] OTHER -> 0

\* a < b as Go compares strings (bytewise, a proper prefix is smaller)
RECURSIVE StrLess(_, _)
StrLess(a, b) ==
    IF b = <<>> THEN FALSE
    ELSE IF a = <<>> THEN TRUE
    ELSE IF Head(a) = Head(b) THEN StrLess(Tail(a), Tail(b))
    ELSE Code(Head(a)) < Code(Head(b))

\* strings.HasPrefix(s, p)
HasPrefix(s, p) == Len(p) <= Len(s) /\ SubSeq(s, 1, Len(p)) = p

\* strings.HasSuffix(s, p)
HasSuffix(s, p) == Len(p) <= Len(s) /\ SubSeq(s, Len(s) - Len(p) + 1, Len(s)) = p

\* strings.TrimPrefix(s, p)
TrimPrefix(s, p) == IF HasPrefix(s, p) THEN SubSeq(s, Len(p) + 1, Len(s)) ELSE s

RECURSIVE TrimLeft(_)
TrimLeft(s) == IF s # <<>> /\ Head(s) = "/" THEN TrimLeft(Tail(s)) ELSE s

RECURSIVE TrimRight(_)
TrimRight(s) ==
    IF s # <<>> /\ s[Len(s)] = "/" THEN TrimRight(SubSeq(s, 1, Len(s) - 1)) ELSE s

\* strings.Trim(s, "/")
Trim(s) == TrimRight(TrimLeft(s))

\* the elements of s between its slashes (empty elements included)
RECURSIVE Elems(_, _)
Elems(s, cur) ==
    IF s = <<>> THEN <<cur>>
    ELSE IF Head(s) = "/" THEN <<cur>> \o Elems(Tail(s), <<>>)
    ELSE Elems(Tail(s), Append(cur, Head(s)))

\* path.Clean's pass over the elements: drop "" and ".", resolve ".."
RECURSIVE CleanStack(_, _, _)
CleanStack(segs, rooted, out) ==
    IF segs = <<>> THEN out
    ELSE LET g == Head(segs)
             rest == Tail(segs)
         IN  IF g = <<>> \/ g = <<".">> THEN CleanStack(rest, rooted, out)
             ELSE IF g = <<".", ".">>
                  THEN IF out # <<>> /\ out[Len(out)] # <<".", ".">>
                       THEN CleanStack(rest, rooted, SubSeq(out, 1, Len(out) - 1))
                       ELSE IF rooted THEN CleanStack(rest, rooted, out)
                       ELSE CleanStack(rest, rooted, Append(out, g))
             ELSE CleanStack(rest, rooted, Append(out, g))

RECURSIVE JoinSegs(_)
JoinSegs(segs) ==
    IF segs = <<>> THEN <<>>
    ELSE IF Len(segs) = 1 THEN segs[1]
    ELSE segs[1] \o <<"/">> \o JoinSegs(Tail(segs))

\* path.Clean(s)
Clean(s) ==
    IF s = <<>> THEN <<".">>
    ELSE LET rooted == Head(s) = "/"
             body == JoinSegs(CleanStack(Elems(s, <<>>), rooted, <<>>))
             r == IF rooted THEN <<"/">> \o body ELSE body
         IN  IF r = <<>> THEN <<".">> ELSE r

\* path.Join(a, b)
Join(a, b) ==
    IF a = <<>> /\ b = <<>> THEN <<>>
    ELSE IF a = <<>> THEN Clean(b)
    ELSE Clean(a \o <<"/">> \o b)

\* the index of the last slash of s, 0 when there is none
LastSlash(s) ==
    LET at == {i \in 1..Len(s) : s[i] = "/"}
    IN  IF at = {} THEN 0 ELSE CHOOSE i \in at : \A j \in at : j <= i

\* path.Base(s)
Base(s) ==
    IF s = <<>> THEN <<".">>
    ELSE LET t == TrimRight(s)
             u == SubSeq(t, LastSlash(t) + 1, Len(t))
         IN  IF u = <<>> THEN <<"/">> ELSE u

\* path.Dir(s)
Dir(s) == Clean(SubSeq(s, 1, LastSlash(s)))

(***************************************************************************)
(* fs/dirtree: a map from directory path to the entries listed in it.      *)
(* An entry is [remote, isDir, src]: src is the index of the archive entry *)
(* it was made from, 0 for a directory made by CheckParents.               *)
(***************************************************************************)
NoEntry == [remote |-> <<>>, isDir |-> FALSE, src |-> -1]

\* fs.NewDir(remote, ...) for archive entry src
NewDir(remote, src) == [remote |-> remote, isDir |-> TRUE, src |-> src]

\* &Object{remote: remote, file: file}
NewObj(remote, src) == [remote |-> remote, isDir |-> FALSE, src |-> src]

\* dirtree.New(): the empty map
dtNew == [k \in {} |-> <<>>]

\* dt[k] of a Go map: the zero value when k is no key
dtGet(dt, k) == IF k \in DOMAIN dt THEN dt[k] ELSE <<>>

\* dt[k] = v
dtSet(dt, k, v) == [x \in (DOMAIN dt) \cup {k} |-> IF x = k THEN v ELSE dt[x]]

\* dirtree.parentDir
parentDir(p) == LET d == Dir(p) IN IF d = <<".">> THEN <<>> ELSE d

\* DirTree.Add: append the entry to its parent's listing (creates no parents)
Add(dt, e) ==
    LET d == parentDir(e.remote) IN dtSet(dt, d, Append(dtGet(dt, d), e))

\* DirTree.AddDir: Add, and make the directory a key; the root is skipped
AddDir(dt, e) ==
    IF e.remote = <<>> THEN dt
    ELSE LET d1 == Add(dt, e)
         IN  IF e.remote \in DOMAIN d1 THEN d1 ELSE dtSet(d1, e.remote, <<>>)

\* the first entry of a listing whose Remote() is p
FirstNamed(es, p) ==
    LET at == {i \in 1..Len(es) : es[i].remote = p}
    IN  IF at = {} THEN NoEntry ELSE es[CHOOSE i \in at : \A j \in at : i <= j]

\* DirTree.Find: the entry for p in its parent's listing, NoEntry for nil
Find(dt, p) == FirstNamed(dtGet(dt, parentDir(p)), p)

\* DirTree.checkParent: dirPath and every ancestor below root is listed in its
\* parent, a directory being appended where nothing of that name is listed
RECURSIVE checkParent(_, _, _)
checkParent(dt, root, dirPath) ==
    IF dirPath = root THEN dt
    ELSE LET parent == parentDir(dirPath)
             d1 == IF Find(dt, dirPath) = NoEntry
                   THEN dtSet(dt, parent, Append(dtGet(dt, parent), NewDir(dirPath, 0)))
                   ELSE dt
         IN  checkParent(d1, root, parent)

RECURSIVE CheckKeys(_, _, _)
CheckKeys(dt, root, keys) ==
    IF keys = {} THEN dt
    ELSE LET k == CHOOSE x \in keys : TRUE
         IN  CheckKeys(checkParent(dt, root, k), root, keys \ {k})

\* DirTree.CheckParents(root): checkParent of every key.  The keys are visited
\* in Go's map order; after Sort the result is the same for every order, since
\* a directory is appended only where no entry of its name is listed.
CheckParents(dt, root) == CheckKeys(dt, root, DOMAIN dt)

\* insert e into the sorted listing es after every entry not greater than it
RECURSIVE Insert(_, _)
Insert(es, e) ==
    IF es = <<>> THEN <<e>>
    ELSE IF StrLess(e.remote, Head(es).remote) THEN <<e>> \o es
    ELSE <<Head(es)>> \o Insert(Tail(es), e)

RECURSIVE SortEntries(_)
SortEntries(es) ==
    IF es = <<>> THEN <<>>
    ELSE Insert(SortEntries(SubSeq(es, 1, Len(es) - 1)), es[Len(es)])

\* DirTree.Sort: every listing sorted by Remote(), stably
Sort(dt) == [k \in DOMAIN dt |-> SortEntries(dt[k])]

(***************************************************************************)
(* The read side: New, readZip / readSquashfs, List, NewObject.            *)
(***************************************************************************)
VARIABLES
    archive,    \* the archive file New finds: [fmt, kind, names, isDir, failAt]
    cfg,        \* [prefix, root] as passed to New
    fsys,       \* the Fs New returned: [made, dtnil, dt]
    newRet,     \* what New returned: "none" before the call, then its error
    ret,        \* the result of the last List / NewObject call
    obj,        \* the size in bytes of the entry an Object stands for
    stream,     \* what the last Object.Open returned: [op, offset, limit, err, bytes]
    wrmu,       \* f.wrmu: the caller holding it, 0 when free
    wh,         \* f.wh: "nil", "open" or "closed"
    zw,         \* f.zw: "nil", "open" or "closed"
    registered, \* the number of finalizers handed to atexit.Register
    opens,      \* the number of output files OpenFile has opened
    out,        \* the calls made on the encoder and the output file, in order
    pc,         \* where each caller is in Put: "idle", "header" or "copy"
    call,       \* each caller's current or last Put: [id, size, avail, copied, method]
    putRet,     \* what each caller's last finished Put returned: [id, err]
    nput,       \* the number of Put calls begun
    exit,       \* the process: "running", "closeZw", "closeWh" or "exited"
    pending     \* the finalizers atexit has still to run

\* raw entry names of the zip archives considered
RawNames ==
    { <<"a", "/", "b">>,                  \* a/b      a file
      <<"a", "/", "c", "/", "d">>,        \* a/c/d    a file two levels down
      <<"a", "/">>,                       \* a/       a directory marker
      <<"a", "/", "c">>,                  \* a/c      a file where a/c/d needs a directory
      <<"a", "/", "c", "d">>,             \* a/cd     shares "a/c" as a string prefix
      <<".", "/", "a", "/", "b">>,        \* ./a/b    cleans to a/b
      <<".">>,                            \* .        cleans to the root
      <<"/">> }                           \* /        a directory marker for the root

\* the (prefix, root) pairs New is called with
Configs ==
    { [prefix |-> <<>>, root |-> <<>>],
      [prefix |-> <<>>, root |-> <<"a">>],
      [prefix |-> <<>>, root |-> <<"a", "/", "c">>],
      [prefix |-> <<"p">>, root |-> <<>>],
      [prefix |-> <<"p">>, root |-> <<"p", "/", "a", "/", "c">>] }

\* the paths List and NewObject are asked for
QueryPaths ==
    { <<>>, <<"a">>, <<"b">>, <<"d">>, <<"a", "/", "b">>, <<"a", "/", "c">>, <<"p">> }

SeqsUpTo(S, n) == UNION {[1..k -> S] : k \in 0..n}

\* the zip file New finds: a readable zip with any entry list, no file, a
\* directory, or a file zip.NewReader rejects
ZipArchives ==
    {[fmt |-> "zip", kind |-> "ok", names |-> ns, isDir |-> <<>>, failAt |-> 0] :
        ns \in SeqsUpTo(RawNames, MaxEntries)}
    \cup {[fmt |-> "zip", kind |-> k, names |-> <<>>, isDir |-> <<>>, failAt |-> 0] :
        k \in {"absent", "isdir", "bad"}}

\* the files and the empty directories a squashfs image is made of
SqFiles ==
    { <<"a", "/", "b">>, <<"a", "/", "c", "/", "d">>, <<"a", "/", "c">>,
      <<"a", "/", "c", "d">>, <<"b">> }

SqDirs == { <<"a">>, <<"a", "/", "c">> }

\* p and its ancestors below the root
RECURSIVE UpTo(_)
UpTo(p) == IF p = <<>> THEN {} ELSE {p} \cup UpTo(parentDir(p))

\* the least path of a set, as fs.WalkDir orders them (lexical, depth first)
MinPath(S) == CHOOSE p \in S : \A q \in S : q = p \/ StrLess(p, q)

RECURSIVE Sorted(_)
Sorted(S) == IF S = {} THEN <<>> ELSE LET m == MinPath(S) IN <<m>> \o Sorted(S \ {m})

\* what fs.WalkDir(f.rd.FS, ".") visits for the image with files F and
\* directories D: "." and then every path, each once, parents first
Walk(F, D) ==
    LET dirs == UNION {UpTo(parentDir(p)) : p \in F \cup D} \cup D
        paths == <<<<".">>>> \o Sorted(F \cup dirs)
    IN  [names |-> paths,
         isDir |-> [i \in 1..Len(paths) |-> i = 1 \/ paths[i] \in dirs]]

\* an image is a tree: no file is also a directory
SqImages ==
    { Walk(F, D) : <<F, D>> \in
        { fd \in (SUBSET SqFiles) \X (SUBSET SqDirs) :
            LET dirs == UNION {UpTo(parentDir(p)) : p \in fd[1] \cup fd[2]} \cup fd[2]
            IN  fd[1] \cap dirs = {} } }

\* the squashfs file New finds; failAt = i > 0: the walk function is handed an
\* error at the i-th path (squashfs.go:151) and the walk ends there
SqArchives ==
    {[fmt |-> "squashfs", kind |-> "ok", names |-> w.names, isDir |-> w.isDir,
      failAt |-> k] : w \in SqImages, k \in {0, 2, 3}}
    \cup {[fmt |-> "squashfs", kind |-> k, names |-> <<>>, isDir |-> <<>>,
           failAt |-> 0] : k \in {"absent", "isdir", "bad"}}

\* readZip, zip.go:189-193: the cleaned entry name joined to the prefix
Joined(name, prefix) ==
    LET c == Trim(Clean(name))
    IN  Join(prefix, IF c = <<".">> THEN <<>> ELSE c)

\* readSquashfs, squashfs.go:154-158: the walked path joined to the prefix
SqJoined(filePath, prefix) ==
    LET c == Trim(filePath)
    IN  Join(prefix, IF c = <<".">> THEN <<>> ELSE c)

\* readZip, zip.go:194-204 (squashfs.go:159-169 is the same text): whether the
\* entry is kept, and its path below root
Rooted(remote, root) ==
    IF root = <<>> THEN [keep |-> TRUE, remote |-> remote]
    ELSE IF ~HasPrefix(remote, root) THEN [keep |-> FALSE, remote |-> remote]
    ELSE IF remote = root THEN [keep |-> TRUE, remote |-> <<>>]
    ELSE [keep |-> TRUE, remote |-> TrimPrefix(remote, root \o <<"/">>)]

\* readZip, zip.go:205: a trailing slash on the raw name marks a directory
ZipIsDir(name) == HasSuffix(name, <<"/">>)

\* Insertion without zip.go:212: the tree built so far is kept when the root
\* turns out to be a file
InsertionKeepsTree(st, remote, isDir, i, root) ==
    IF isDir THEN [st EXCEPT !.dt = AddDir(st.dt, NewDir(remote, i))]
    ELSE IF remote = <<>>
         THEN [dt |-> Add(st.dt, NewObj(Base(root), i)), single |-> TRUE]
         ELSE [st EXCEPT !.dt = Add(st.dt, NewObj(remote, i))]

\* readZip, zip.go:205-224 (squashfs.go:174-194 is the same text): what one
\* kept entry does to (dt, singleObject)
Insertion(st, remote, isDir, i, root) ==
    IF isDir THEN [st EXCEPT !.dt = AddDir(st.dt, NewDir(remote, i))]
    ELSE IF remote = <<>>
         THEN [dt |-> Add(dtNew, NewObj(Base(root), i)), single |-> TRUE]
         ELSE [st EXCEPT !.dt = Add(st.dt, NewObj(remote, i))]

\* readZip, zip.go:188-225: the loop over zr.File, left when singleObject is set
RECURSIVE ZipLoop(_, _, _, _, _)
ZipLoop(st, names, i, prefix, root) ==
    IF i > Len(names) \/ st.single THEN st
    ELSE LET r == Rooted(Joined(names[i], prefix), root)
             st1 == IF r.keep
                    THEN Insertion(st, r.remote, ZipIsDir(names[i]), i, root)
                    ELSE st
         IN  ZipLoop(st1, names, i + 1, prefix, root)

\* readZip on a readable zip: (f.dt, singleObject)
readZip(names, prefix, root) ==
    LET st == ZipLoop([dt |-> dtNew, single |-> FALSE], names, 1, prefix, root)
    IN  [dt |-> Sort(CheckParents(st.dt, <<>>)), single |-> st.single]

\* readSquashfs, squashfs.go:150-196: the walk, ended by SkipAll when
\* singleObject is set and by the error handed to the walk function
RECURSIVE SqLoop(_, _, _, _, _)
SqLoop(st, a, i, prefix, root) ==
    IF i > Len(a.names) \/ st.single \/ i = a.failAt THEN st
    ELSE LET r == Rooted(SqJoined(a.names[i], prefix), root)
             st1 == IF r.keep
                    THEN Insertion(st, r.remote, a.isDir[i], i, root)
                    ELSE st
         IN  SqLoop(st1, a, i + 1, prefix, root)

\* readSquashfs: (f.dt, singleObject); the error WalkDir returns is assigned
\* at squashfs.go:150 and not looked at again
readSquashfs(a, prefix, root) ==
    LET st == SqLoop([dt |-> dtNew, single |-> FALSE], a, 1, prefix, root)
    IN  [dt |-> Sort(CheckParents(st.dt, <<>>)), single |-> st.single]

NoFs == [made |-> FALSE, dtnil |-> TRUE, dt |-> dtNew]

NoRet == [op |-> "none", arg |-> <<>>, err |-> "nil", entries |-> <<>>, obj |-> NoEntry]

\* List without the ok test of zip.go:260-262: a missing directory lists empty
ListNoCheck(f, dir) ==
    [NoRet EXCEPT !.op = "List", !.arg = dir, !.entries = dtGet(f.dt, dir)]

\* Fs.List, zip.go:253-265: an exact lookup of dir in f.dt
List(f, dir) ==
    IF dir \in DOMAIN f.dt
    THEN [NoRet EXCEPT !.op = "List", !.arg = dir, !.entries = f.dt[dir]]
    ELSE [NoRet EXCEPT !.op = "List", !.arg = dir, !.err = "ErrorDirNotFound"]

\* NewObject without the type check of zip.go:277-280
NewObjectAnyEntry(f, remote) ==
    LET entry == Find(f.dt, remote)
        notFound == [NoRet EXCEPT !.op = "NewObject", !.arg = remote,
                                  !.err = "ErrorObjectNotFound"]
    IN  IF f.dtnil THEN notFound
        ELSE IF entry = NoEntry THEN notFound
        ELSE [notFound EXCEPT !.err = "nil", !.obj = entry]

\* Fs.NewObject, zip.go:268-282
NewObject(f, remote) ==
    LET entry == Find(f.dt, remote)
        notFound == [NoRet EXCEPT !.op = "NewObject", !.arg = remote,
                                  !.err = "ErrorObjectNotFound"]
    IN  IF f.dtnil THEN notFound
        ELSE IF entry = NoEntry THEN notFound
        ELSE IF entry.isDir THEN [notFound EXCEPT !.err = "ErrorNotAFile"]
        ELSE [notFound EXCEPT !.err = "nil", !.obj = entry]

\* Fs.Mkdir, zip.go:292-295 (squashfs.go:263-266): nothing is done
Mkdir(f, dir) == [NoRet EXCEPT !.op = "Mkdir", !.arg = dir]

\* Fs.Rmdir, zip.go:300-302 (squashfs.go:271-273)
Rmdir(f, dir) == [NoRet EXCEPT !.op = "Rmdir", !.arg = dir, !.err = "ErrCantRmdir"]

\* Object.SetModTime, zip.go:483-486 (squashfs.go:388-391): a debug line only
SetModTime(o) == [NoRet EXCEPT !.op = "SetModTime", !.arg = o.remote, !.obj = o]

\* Object.Update, zip.go:543-545 (squashfs.go:444-446)
Update(o) ==
    [NoRet EXCEPT !.op = "Update", !.arg = o.remote, !.obj = o, !.err = "ErrCantUpdate"]

\* Remove answering as if the entry had been removed
RemoveSucceeds(o) == [NoRet EXCEPT !.op = "Remove", !.arg = o.remote, !.obj = o]

\* Object.Remove, zip.go:548-550 (squashfs.go:449-451)
Remove(o) ==
    [NoRet EXCEPT !.op = "Remove", !.arg = o.remote, !.obj = o, !.err = "ErrCantRemove"]

\* squashfs Fs.Put, squashfs.go:318-320
SquashfsPut(f) == [NoRet EXCEPT !.op = "Put", !.err = "ErrorNotImplemented"]

Callers == 1..NumCallers

NoStream == [op |-> "none", offset |-> 0, limit |-> -1, err |-> "nil", bytes |-> <<>>]

NoCall == [id |-> 0, size |-> 0, avail |-> 0, copied |-> 0, method |-> "unset"]

NoPutRet == [id |-> 0, err |-> "none"]

\* no Object is opened
IdleOpen == obj = 0 /\ stream = NoStream

\* no Put has been called: the state New leaves the write session in
IdleWrite ==
    /\ wrmu = 0
    /\ wh = "nil"
    /\ zw = "nil"
    /\ registered = 0
    /\ opens = 0
    /\ out = <<>>
    /\ pc = [c \in Callers |-> "idle"]
    /\ call = [c \in Callers |-> NoCall]
    /\ putRet = [c \in Callers |-> NoPutRet]
    /\ nput = 0
    /\ exit = "running"
    /\ pending = 0

\* New has not been called
IdleRead ==
    /\ archive = [fmt |-> "zip", kind |-> "absent", names |-> <<>>, isDir |-> <<>>,
                  failAt |-> 0]
    /\ cfg = [prefix |-> <<>>, root |-> <<>>]
    /\ fsys = NoFs
    /\ newRet = "none"
    /\ ret = NoRet

readVars == <<archive, cfg, fsys, newRet, ret>>

openVars == <<obj, stream>>

writeVars == <<wrmu, wh, zw, registered, opens, out, pc, call, putRet, nput, exit, pending>>

vars == <<archive, cfg, fsys, newRet, ret, obj, stream, wrmu, wh, zw, registered, opens,
          out, pc, call, putRet, nput, exit, pending>>

InitRead ==
    /\ archive \in ZipArchives \cup SqArchives
    /\ cfg \in Configs
    /\ fsys = NoFs
    /\ newRet = "none"
    /\ ret = NoRet
    /\ IdleOpen
    /\ IdleWrite

\* zip.New, zip.go:93-146
New ==
    /\ newRet = "none"
    /\ archive.fmt = "zip"
    /\ \/ /\ archive.kind = "isdir"           \* zip.go:105-107
          /\ fsys' = NoFs
          /\ newRet' = "error"
       \/ /\ archive.kind = "bad"             \* zip.go:122-125, readZip failed
          /\ fsys' = NoFs
          /\ newRet' = "error"
       \/ /\ archive.kind = "absent"          \* zip.go:121, node == nil
          /\ fsys' = [made |-> TRUE, dtnil |-> TRUE, dt |-> dtNew]
          /\ newRet' = "nil"
       \/ /\ archive.kind = "ok"
          /\ LET r == readZip(archive.names, cfg.prefix, cfg.root)
             IN  /\ fsys' = [made |-> TRUE, dtnil |-> FALSE, dt |-> r.dt]
                 /\ newRet' = IF r.single THEN "ErrorIsFile" ELSE "nil"
    /\ UNCHANGED <<archive, cfg, ret, openVars, writeVars>>

\* squashfs.New, squashfs.go:50-115
NewSquashfs ==
    /\ newRet = "none"
    /\ archive.fmt = "squashfs"
    /\ \/ /\ archive.kind = "isdir"           \* squashfs.go:63-65
          /\ fsys' = NoFs
          /\ newRet' = "error"
       \/ /\ archive.kind = "bad"             \* squashfs.go:71-74, NewReader failed
          /\ fsys' = NoFs
          /\ newRet' = "error"
       \/ /\ archive.kind = "absent"          \* squashfs.go:66, node.Open on a nil node
          /\ fsys' = NoFs
          /\ newRet' = "panic"
       \/ /\ archive.kind = "ok"
          /\ LET r == readSquashfs(archive, cfg.prefix, cfg.root)
             IN  /\ fsys' = [made |-> TRUE, dtnil |-> FALSE, dt |-> r.dt]
                 /\ newRet' = IF r.single THEN "ErrorIsFile" ELSE "nil"
    /\ UNCHANGED <<archive, cfg, ret, openVars, writeVars>>

CallList ==
    /\ fsys.made
    /\ \E dir \in QueryPaths : ret' = List(fsys, dir)
    /\ UNCHANGED <<archive, cfg, fsys, newRet, openVars, writeVars>>

CallNewObject ==
    /\ fsys.made
    /\ \E remote \in QueryPaths : ret' = NewObject(fsys, remote)
    /\ UNCHANGED <<archive, cfg, fsys, newRet, openVars, writeVars>>

\* the directories Mkdir and Rmdir are asked for
DirArgs == { <<>>, <<"a">> }

CallMkdir ==
    /\ fsys.made
    /\ \E dir \in DirArgs : ret' = Mkdir(fsys, dir)
    /\ UNCHANGED <<archive, cfg, fsys, newRet, openVars, writeVars>>

CallRmdir ==
    /\ fsys.made
    /\ \E dir \in DirArgs : ret' = Rmdir(fsys, dir)
    /\ UNCHANGED <<archive, cfg, fsys, newRet, openVars, writeVars>>

\* the Object the caller holds: the one NewObject returned last
HeldObject == ret.obj # NoEntry

CallSetModTime ==
    /\ HeldObject
    /\ ret' = SetModTime(ret.obj)
    /\ UNCHANGED <<archive, cfg, fsys, newRet, openVars, writeVars>>

CallUpdate ==
    /\ HeldObject
    /\ ret' = Update(ret.obj)
    /\ UNCHANGED <<archive, cfg, fsys, newRet, openVars, writeVars>>

CallRemove ==
    /\ HeldObject
    /\ ret' = Remove(ret.obj)
    /\ UNCHANGED <<archive, cfg, fsys, newRet, openVars, writeVars>>

CallSquashfsPut ==
    /\ fsys.made
    /\ archive.fmt = "squashfs"
    /\ ret' = SquashfsPut(fsys)
    /\ UNCHANGED <<archive, cfg, fsys, newRet, openVars, writeVars>>

NextRead ==
    \/ New
    \/ NewSquashfs
    \/ CallList
    \/ CallNewObject
    \/ CallMkdir
    \/ CallRmdir
    \/ CallSetModTime
    \/ CallUpdate
    \/ CallRemove
    \/ CallSquashfsPut

SpecRead == InitRead /\ [][NextRead]_vars

(***************************************************************************)
(* The entry reader: Object.Open.                                          *)
(***************************************************************************)
\* the bytes of an entry of n bytes: byte i is written i
Content(n) == [i \in 1..n |-> i - 1]

\* readers.NewLimitedReadCloser(rc, limit) on a stream with rest left to
\* yield: at most limit bytes, the stream itself when limit < 0
NewLimitedReadCloser(rest, limit) ==
    IF limit < 0 THEN rest
    ELSE SubSeq(rest, 1, IF limit < Len(rest) THEN limit ELSE Len(rest))

\* Object.Open, zip.go:522-539, with offset and limit as the options gave
\* them (zip.go:508-520): the bytes the returned stream yields until
\* end-of-data, or the error of the discarding io.CopyN
Open(size, offset, limit) ==
    LET rc == Content(size)
        res == [op |-> "Open", offset |-> offset, limit |-> limit, err |-> "nil",
                bytes |-> <<>>]
    IN  IF offset > 0 /\ offset > size
        THEN [res EXCEPT !.err = "EOF"]
        ELSE LET rest == SubSeq(rc, offset + 1, size)
             IN  IF limit >= 0
                 THEN [res EXCEPT !.bytes = NewLimitedReadCloser(rest, limit - offset)]
                 ELSE [res EXCEPT !.bytes = rest]

InitOpen ==
    /\ IdleRead
    /\ IdleWrite
    /\ obj \in 0..MaxSize
    /\ stream = NoStream

CallOpen ==
    /\ \E offset \in 0..(MaxSize + 1), limit \in (-1)..(MaxSize + 1) :
          stream' = Open(obj, offset, limit)
    /\ UNCHANGED <<obj, readVars, writeVars>>

NextOpen == CallOpen

SpecOpen == InitOpen /\ [][NextOpen]_vars

\* the bytes from..(to - 1) of an entry
Window(from, to) == [i \in 1..(to - from) |-> from + i - 1]

\* C4: Open with offset o and limit l on an entry of n bytes (o <= n) yields
\* exactly the bytes [o, min(o + l, n)) and then end-of-data: never more
\* than l bytes.
C4_OffsetLimitWindow ==
    (stream.op = "Open" /\ stream.offset <= obj) =>
        LET o == stream.offset
            l == stream.limit
            end == IF l >= 0 /\ o + l < obj THEN o + l ELSE obj
        IN  /\ stream.err = "nil"
            /\ stream.bytes = Window(o, end)
            /\ l >= 0 => Len(stream.bytes) <= l

(***************************************************************************)
(* The zip writer: Fs.Put and the finalizer it registers with atexit.      *)
(* A Put holds f.wrmu from its first line to its return.  The finalizer    *)
(* takes no lock; atexit runs it when the process is told to exit, which   *)
(* can be while a Put is under way.                                        *)
(***************************************************************************)
\* zip.go:393: entries below this size are stored, the others deflated
SmallSize == 10

\* the declared sizes of the objects put: unknown, empty, small, large
Sizes == {-1, 0, SmallSize - 1, SmallSize}

\* the bytes the content stream yields before end-of-data: all, or half
Avails(size) == IF size <= 0 THEN {0} ELSE {size, size \div 2}

\* a lock that never makes a caller wait
LockNeverWaits(c) == c \in Callers

\* f.wrmu.Lock() returns for caller c (zip.go:349)
CanLock(c) == wrmu = 0

\* Put with the size check after the opening of the output file
BeginOpensFirst(size, zwNow, openOk) ==
    IF zwNow = "nil" /\ ~openOk THEN [err |-> "ErrOpen", opened |-> FALSE]
    ELSE IF size < 0 THEN [err |-> "ErrUnknownSize", opened |-> zwNow = "nil"]
    ELSE [err |-> "nil", opened |-> zwNow = "nil"]

\* Put, zip.go:352-379: the error it returns with, and whether it opened the
\* output file, made the encoder and registered the finalizer
Begin(size, zwNow, openOk) ==
    IF size < 0 THEN [err |-> "ErrUnknownSize", opened |-> FALSE]
    ELSE IF zwNow # "nil" THEN [err |-> "nil", opened |-> FALSE]
    ELSE IF ~openOk THEN [err |-> "ErrOpen", opened |-> FALSE]
    ELSE [err |-> "nil", opened |-> TRUE]

\* zip.go:393-397: the method put into the header after CreateHeader
Method(size) == IF size < SmallSize THEN "Store" ELSE "Deflate"

InitWrite ==
    /\ IdleRead
    /\ IdleOpen
    /\ IdleWrite

\* Put, zip.go:347-379: take the lock, reject an unknown size, open the
\* session on first use
PutBegin(c) ==
    /\ exit # "exited"
    /\ pc[c] = "idle"
    /\ nput < MaxPuts
    /\ CanLock(c)
    /\ \E size \in Sizes, openOk \in BOOLEAN :
        \E avail \in Avails(size) :
          LET b == Begin(size, zw, openOk)
              id == nput + 1
          IN  /\ nput' = id
              /\ call' = [call EXCEPT ![c] = [id |-> id, size |-> size, avail |-> avail,
                                              copied |-> 0, method |-> "unset"]]
              /\ IF b.opened
                 THEN /\ wh' = "open"
                      /\ zw' = "open"
                      /\ opens' = opens + 1
                      /\ registered' = registered + 1
                 ELSE UNCHANGED <<wh, zw, opens, registered>>
              /\ IF b.err = "nil"
                 THEN /\ wrmu' = c
                      /\ pc' = [pc EXCEPT ![c] = "header"]
                      /\ UNCHANGED putRet
                 ELSE /\ wrmu' = 0
                      /\ putRet' = [putRet EXCEPT ![c] = [id |-> id, err |-> b.err]]
                      /\ UNCHANGED pc
    /\ UNCHANGED <<out, exit, pending, readVars, openVars>>

\* Put, zip.go:383-397: f.zw.CreateHeader(fh) with the method FileInfoHeader
\* left in fh (Store), then fh.Method is set from the size.  On a closed
\* encoder the call is made all the same; it may or may not report an error.
PutHeader(c) ==
    /\ exit # "exited"
    /\ pc[c] = "header"
    /\ out' = Append(out, [k |-> "header", id |-> call[c].id, who |-> c, n |-> 0,
                           method |-> "Store", closed |-> zw = "closed"])
    /\ \/ /\ pc' = [pc EXCEPT ![c] = "copy"]
          /\ call' = [call EXCEPT ![c].method = Method(call[c].size)]
          /\ UNCHANGED <<wrmu, putRet>>
       \/ /\ zw = "closed"
          /\ pc' = [pc EXCEPT ![c] = "idle"]
          /\ putRet' = [putRet EXCEPT ![c] = [id |-> call[c].id, err |-> "ErrHeader"]]
          /\ wrmu' = 0
          /\ UNCHANGED call
    /\ UNCHANGED <<wh, zw, opens, registered, nput, exit, pending, readVars, openVars>>

\* Put, zip.go:398-401: io.CopyN hands the encoder one more chunk of the
\* content stream
PutCopy(c) ==
    /\ exit # "exited"
    /\ pc[c] = "copy"
    /\ call[c].copied < call[c].size
    /\ call[c].copied < call[c].avail
    /\ LET left == call[c].size - call[c].copied
           have == call[c].avail - call[c].copied
           m == IF left < have THEN left ELSE have
           n == IF m < Chunk THEN m ELSE Chunk
       IN  /\ out' = Append(out, [k |-> "data", id |-> call[c].id, who |-> c, n |-> n,
                                  method |-> "Store", closed |-> zw = "closed"])
           /\ call' = [call EXCEPT ![c].copied = call[c].copied + n]
    /\ UNCHANGED <<wrmu, wh, zw, opens, registered, pc, putRet, nput, exit, pending,
                   readVars, openVars>>

\* Put, zip.go:398-416: io.CopyN is done, with size bytes copied or with the
\* content stream at its end before that; Put returns and the lock is released
PutReturn(c) ==
    /\ exit # "exited"
    /\ pc[c] = "copy"
    /\ \/ /\ call[c].copied = call[c].size
          /\ putRet' = [putRet EXCEPT ![c] = [id |-> call[c].id, err |-> "nil"]]
       \/ /\ call[c].copied < call[c].size
          /\ call[c].copied = call[c].avail
          /\ putRet' = [putRet EXCEPT ![c] = [id |-> call[c].id, err |-> "ErrCopy"]]
    /\ pc' = [pc EXCEPT ![c] = "idle"]
    /\ wrmu' = 0
    /\ UNCHANGED <<wh, zw, opens, registered, out, call, nput, exit, pending,
                   readVars, openVars>>

\* atexit.Run: the process is told to exit and the registered finalizers run
AtExitRun ==
    /\ exit = "running"
    /\ pending' = registered
    /\ exit' = IF registered > 0 THEN "closeZw" ELSE "exited"
    /\ UNCHANGED <<wrmu, wh, zw, opens, registered, out, pc, call, putRet, nput,
                   readVars, openVars>>

\* the finalizer, zip.go:370: f.zw.Close()
FinalizerCloseZw ==
    /\ exit = "closeZw"
    /\ out' = Append(out, [k |-> "closeZw", id |-> 0, who |-> 0, n |-> 0,
                           method |-> "none", closed |-> zw = "closed"])
    /\ zw' = "closed"
    /\ exit' = "closeWh"
    /\ UNCHANGED <<wrmu, wh, opens, registered, pc, call, putRet, nput, pending,
                   readVars, openVars>>

\* the finalizer, zip.go:374: f.wh.Close(); the process exits after the last
\* finalizer
FinalizerCloseWh ==
    /\ exit = "closeWh"
    /\ out' = Append(out, [k |-> "closeWh", id |-> 0, who |-> 0, n |-> 0,
                           method |-> "none", closed |-> wh = "closed"])
    /\ wh' = "closed"
    /\ pending' = pending - 1
    /\ exit' = IF pending > 1 THEN "closeZw" ELSE "exited"
    /\ UNCHANGED <<wrmu, zw, opens, registered, pc, call, putRet, nput,
                   readVars, openVars>>

NextWrite ==
    \/ \E c \in Callers : PutBegin(c)
    \/ \E c \in Callers : PutHeader(c)
    \/ \E c \in Callers : PutCopy(c)
    \/ \E c \in Callers : PutReturn(c)
    \/ AtExitRun
    \/ FinalizerCloseZw
    \/ FinalizerCloseWh

SpecWrite == InitWrite /\ [][NextWrite]_vars

(***************************************************************************)
(* Properties of the read side.                                            *)
(***************************************************************************)
\* New returned an Fs whose tree was built from a readable archive
Built == fsys.made /\ ~fsys.dtnil

\* every entry listed anywhere in the tree
AllEntries(dt) == UNION {{dt[k][i] : i \in 1..Len(dt[k])} : k \in DOMAIN dt}

\* the entries of the tree named p
Listed(dt, p) == {e \in AllEntries(dt) : e.remote = p}

\* the indices of the entries the decoder handed to the build
Delivered ==
    IF archive.failAt > 0 /\ archive.failAt <= Len(archive.names)
    THEN 1..(archive.failAt - 1)
    ELSE 1..Len(archive.names)

EntryIsDir(i) ==
    IF archive.fmt = "zip" THEN ZipIsDir(archive.names[i]) ELSE archive.isDir[i]

\* the prefix-joined cleaned path of entry i
EntryPath(i) ==
    IF archive.fmt = "zip" THEN Joined(archive.names[i], cfg.prefix)
    ELSE SqJoined(archive.names[i], cfg.prefix)

\* p is root or lies below root
Under(p, root) == p = root \/ HasPrefix(p, root \o <<"/">>)

\* p with root and the separator after it removed
Strip(p, root) == IF p = root THEN <<>> ELSE SubSeq(p, Len(root) + 2, Len(p))

\* the proper ancestors of p, the root "" included
Ancestors(p) == UpTo(parentDir(p)) \cup {<<>>}

\* C1: after build, every proper ancestor directory of every accepted entry's
\* normalized path, the root "" included, is a key of the tree and is listed
\* exactly once, as a directory, in its own parent.
C1_AncestorsListedOnce ==
    Built =>
        \A e \in AllEntries(fsys.dt) :
            e.src > 0 =>
                \A d \in Ancestors(e.remote) :
                    /\ d \in DOMAIN fsys.dt
                    /\ d # <<>> =>
                        LET at == {i \in 1..Len(fsys.dt[parentDir(d)]) :
                                      fsys.dt[parentDir(d)][i].remote = d}
                        IN  /\ Cardinality(at) = 1
                            /\ \A i \in at : fsys.dt[parentDir(d)][i].isDir

\* C2: with a non-empty root, the entries stored in the tree are exactly the
\* entries whose prefix-joined cleaned path is root or starts with root + "/",
\* each under its path with root and the following separator stripped.
C2_OnlyUnderRoot ==
    (Built /\ cfg.root # <<>> /\ newRet = "nil") =>
        {<<e.src, e.remote>> : e \in {x \in AllEntries(fsys.dt) : x.src > 0}}
          = {<<i, Strip(EntryPath(i), cfg.root)>> :
                i \in {j \in Delivered : /\ Under(EntryPath(j), cfg.root)
                                         /\ EntryPath(j) # cfg.root}}

\* the file entries whose prefix-joined path is the root
RootFiles == {i \in Delivered : ~EntryIsDir(i) /\ EntryPath(i) = cfg.root}

\* C3: build reports single_object iff some file entry's prefix-joined path
\* equals root; the tree then holds only that file, listed under "" and named
\* by the base name of root, and New returns the Fs with the is-a-file error.
C3_SingleObject ==
    (newRet # "none" /\ archive.kind = "ok") =>
        /\ (newRet = "ErrorIsFile") <=> (RootFiles # {})
        /\ newRet \in {"nil", "ErrorIsFile"}
        /\ fsys.made
        /\ RootFiles # {} =>
            LET i == CHOOSE x \in RootFiles : \A y \in RootFiles : x <= y
            IN  fsys.dt = [k \in {<<>>} |-> <<NewObj(Base(cfg.root), i)>>]

\* C3 witness: a single-object build whose file entry has entries before and
\* after it in the entry list
C3_Witness ==
    /\ newRet = "ErrorIsFile"
    /\ Len(archive.names) >= 3
    /\ 2 \in RootFiles
    /\ 1 \notin RootFiles
    /\ Under(EntryPath(1), cfg.root)
    /\ cfg.root # <<>>

C6_ListExact ==
    /\ (fsys.made /\ ret.op = "List") =>
          IF ret.arg \in DOMAIN fsys.dt
          THEN ret.err = "nil" /\ ret.entries = fsys.dt[ret.arg]
          ELSE ret.err = "ErrorDirNotFound" /\ ret.entries = <<>>
    /\ (fsys.made /\ fsys.dtnil /\ ret.op = "List") =>
          ret.err = "ErrorDirNotFound" /\ ret.entries = <<>>
    /\ (fsys.made /\ fsys.dtnil /\ ret.op = "NewObject") =>
          ret.err = "ErrorObjectNotFound" /\ ret.obj = NoEntry
    /\ (fsys.made /\ fsys.dtnil) => archive.kind = "absent"

\* C6 witness: the root listed on an Fs whose archive file is absent
C6_Witness ==
    /\ fsys.made /\ fsys.dtnil
    /\ ret.op = "List" /\ ret.arg = <<>> /\ ret.err = "ErrorDirNotFound"

(***************************************************************************)
(* The read view under the operations that would change a file system.     *)
(***************************************************************************)
\* the tree the build makes of the archive New was given
TreeAfterBuild ==
    IF archive.fmt = "zip" THEN readZip(archive.names, cfg.prefix, cfg.root).dt
    ELSE readSquashfs(archive, cfg.prefix, cfg.root).dt

\* C11: on a built read view Mkdir and SetModTime always succeed and Rmdir,
\* Update and Remove always fail; no operation on the view changes the built
\* tree: it is the tree the build made when New returns and every later step
\* leaves it as it is, so List and NewObject answer from that tree whatever
\* was called before them.
C11_ViewIsImmutable ==
    [][/\ (~fsys.made /\ Built') => fsys'.dt = TreeAfterBuild
       /\ fsys.made => (fsys' = fsys /\ archive' = archive /\ cfg' = cfg)
       /\ ret'.op \in {"Mkdir", "SetModTime"} => ret'.err = "nil"
       /\ ret'.op \in {"Rmdir", "Update", "Remove"} => ret'.err # "nil"
       /\ (fsys.made /\ ret'.op = "List") => ret' = List(fsys, ret'.arg)
       /\ (fsys.made /\ ret'.op = "NewObject") => ret' = NewObject(fsys, ret'.arg)
      ]_vars

\* C11 witness: Remove has failed on an object of a built view, and the object
\* is still found in the tree
C11_Witness ==
    /\ Built
    /\ ret.op = "Remove" /\ ret.err # "nil"
    /\ ret.obj.src > 0
    /\ Find(fsys.dt, ret.obj.remote) = ret.obj
    /\ Cardinality(AllEntries(fsys.dt)) >= 2

\* C12: within one build no two accepted entries occupy the same normalized
\* path: when two distinct raw entry paths normalize to the same relative path
\* under the same (prefix, root), the tree never lists both under that path.
C12_UniquePaths ==
    Built =>
        \A i, j \in Delivered :
            (i < j /\ archive.names[i] # archive.names[j]) =>
                ~\E e1, e2 \in AllEntries(fsys.dt) :
                    /\ e1.src = i
                    /\ e2.src = j
                    /\ e1.remote = e2.remote

\* the build failed: the archive is a directory, the decoder rejected it, or
\* the walk was handed an error at one of its paths (and had not been ended
\* before that path by a file that is the root)
BuildFailed ==
    \/ archive.kind \in {"isdir", "bad"}
    \/ /\ archive.kind = "ok"
       /\ archive.failAt > 0
       /\ archive.failAt <= Len(archive.names)
       /\ RootFiles = {}

\* C13: if opening, parsing or walking the archive fails at any point during
\* build, New returns an error and no Fs: no Fs is returned whose tree was
\* built from only part of the archive's entries.
C13_FailedBuildReturnsNoFs ==
    (newRet # "none" /\ BuildFailed) => (newRet = "error" /\ ~fsys.made)

\* the delivered entries whose cleaned path is the root itself
RootEntries == {i \in Delivered : EntryPath(i) = <<>>}

\* C16: with empty prefix and empty root, a raw entry whose path cleans to "."
\* or to the empty path is a directory marker for the root: it adds no file
\* node, the entries built so far stay in the tree, and the build is never
\* switched into single-object mode.
C16_RootEntryIsDirMarker ==
    (newRet # "none" /\ archive.kind = "ok" /\ cfg.prefix = <<>> /\ cfg.root = <<>>
        /\ RootEntries # {}) =>
        /\ newRet = "nil"
        /\ \A e \in AllEntries(fsys.dt) : e.src \in RootEntries => e.isDir
        /\ \A j \in Delivered \ RootEntries :
              \E e \in AllEntries(fsys.dt) : e.src = j

(***************************************************************************)
(* Properties of the zip writer.                                           *)
(***************************************************************************)
\* the calls that wrote an entry's header or data to the encoder
EntryWrites == SelectSeq(out, LAMBDA r : r.k \in {"header", "data"})

\* C7: Put with a declared size < 0 returns an error and changes nothing: no
\* output stream is opened, no encoder is created, no finalizer is registered,
\* nothing is written, whatever state the session is in; the lock is free
\* when it has returned.
C7_UnknownSizeChangesNothing ==
    [][\A c \in Callers :
          (nput' = nput + 1 /\ call'[c].id = nput' /\ call'[c].size < 0) =>
              /\ putRet'[c] = [id |-> nput', err |-> "ErrUnknownSize"]
              /\ wh' = wh /\ zw' = zw
              /\ registered' = registered /\ opens' = opens
              /\ out' = out
              /\ pc' = pc
              /\ wrmu' = 0]_vars

\* C7 witness: a Put of unknown size was rejected on an open session that
\* had written an entry, and one was rejected before the session was opened
C7_Witness ==
    \E c \in Callers :
        /\ putRet[c].err = "ErrUnknownSize"
        /\ putRet[c].id = 2
        /\ zw = "open"
        /\ Len(out) > 0

\* C8: once a Put has failed because the content stream ended before the
\* declared size, no later Put writes a header or data to the encoder.
C8_UnusableAfterShortRead ==
    \A c \in Callers :
        putRet[c].err = "ErrCopy" =>
            \A i \in 1..Len(EntryWrites) : EntryWrites[i].id <= putRet[c].id

\* C9: the encoder is closed at most once and before the output stream, which
\* is closed at most once; once the process has exited after an entry was
\* accepted both are closed; and no header or data is written to the encoder
\* after its close.
C9_ClosedOnceAfterLastWrite ==
    LET zwAt == {i \in 1..Len(out) : out[i].k = "closeZw"}
        whAt == {i \in 1..Len(out) : out[i].k = "closeWh"}
    IN  /\ Cardinality(zwAt) <= 1
        /\ Cardinality(whAt) <= 1
        /\ \A i \in whAt : \E j \in zwAt : j < i
        /\ (exit = "exited" /\ Len(EntryWrites) > 0) => (zwAt # {} /\ whAt # {})
        /\ \A i \in zwAt : \A j \in 1..Len(out) :
              out[j].k \in {"header", "data"} => j < i

\* C10: at most one Put at a time is between taking the lock and returning, so
\* the header and data of one entry are never interleaved with those of
\* another, and the output stream, the encoder and the finalizer are made at
\* most once.
C10_OnePutAtATime ==
    /\ Cardinality({c \in Callers : pc[c] # "idle"}) <= 1
    /\ \A c \in Callers : pc[c] # "idle" => wrmu = c
    /\ (\A c \in Callers : pc[c] = "idle") => wrmu = 0
    /\ opens <= 1
    /\ registered <= 1
    /\ \A i, j, k \in 1..Len(EntryWrites) :
          (i < j /\ j < k /\ EntryWrites[i].id = EntryWrites[k].id) =>
              EntryWrites[j].id = EntryWrites[i].id
    /\ \A i \in 1..Len(EntryWrites) :
          (EntryWrites[i].k = "header") <=>
              (i = 1 \/ EntryWrites[i - 1].id # EntryWrites[i].id)

\* C10 witness: two callers have each written an entry's data
C10_Witness ==
    \E i, j \in 1..Len(out) :
        /\ i < j
        /\ out[i].k = "data" /\ out[j].k = "data"
        /\ out[i].who # out[j].who

\* C14: for every entry accepted by Put the storage method is chosen from the
\* declared size (Store below SmallSize, Deflate otherwise) before the header
\* is written: the header handed to the encoder and the encoding of the
\* copied bytes both carry the chosen method.
C14_MethodChosenBeforeHeader ==
    \A c \in Callers :
        call[c].method # "unset" =>
            /\ call[c].method = Method(call[c].size)
            /\ \A i \in 1..Len(out) :
                  (out[i].k \in {"header", "data"} /\ out[i].id = call[c].id) =>
                      out[i].method = call[c].method

\* C15: every access to the session's encoder and output stream, the closes
\* made by the finalizer included, is made by the holder of the session lock,
\* so the finalizer never closes them while a Put is between writing an
\* entry's header and finishing its copy.
C15_SessionAccessUnderLock ==
    [][/\ Len(out') > Len(out) =>
              (wrmu # 0 /\ out'[Len(out')].who = wrmu)
       /\ \A c \in Callers :
              pc[c] = "copy" => (zw' = zw /\ wh' = wh)
      ]_vars

====
